---- MODULE Spec2Model ----
(***************************************************************************)
(* A model of minikv (src/skeleton.py): the wire codec of ProtocolHandler, *)
(* the command router and handlers of Server, and the per-connection       *)
(* dispatch loop run by cooperatively scheduled greenlets.                 *)
(*                                                                         *)
(* Bytes are one-character strings; "xFF" stands for the byte 0xFF, which  *)
(* is never part of valid UTF-8, "x0B" and "x1C".."x1F" for the control    *)
(* characters of those codes.  All other bytes of the model are ASCII,     *)
(* so bytes.decode('utf-8') fails exactly when a 0xFF byte is present and  *)
(* str.encode('utf-8') maps each character to the byte of the same name.   *)
(*                                                                         *)
(* A Python value is a record [k |-> kind, p |-> payload]:                 *)
(*   "str"   p = the characters          "bytes" p = the bytes             *)
(*   "int"   p = the integer             "none"  p = <<>>                  *)
(*   "err"   p = the characters of Error.message                           *)
(*   "list"  p = the elements            "dict"  p = <<key, value>> pairs, *)
(*                                           in insertion order            *)
(***************************************************************************)
EXTENDS Integers, Sequences, FiniteSets, TLC

CR == "\r"
LF == "\n"
XFF == "xFF"

Str(s) == [k |-> "str", p |-> s]
Bytes(s) == [k |-> "bytes", p |-> s]
Integer(n) == [k |-> "int", p |-> n]
None == [k |-> "none", p |-> <<>>]
Error(m) == [k |-> "err", p |-> m]
List(xs) == [k |-> "list", p |-> xs]
Dict(kvs) == [k |-> "dict", p |-> kvs]

----------------------------------------------------------------------------
(* Python builtins used by the codec *)

Digits == <<"0", "1", "2", "3", "4", "5", "6", "7", "8", "9">>
LowerCase == <<"a", "b", "c", "d", "e", "f", "g", "h", "i", "j", "k", "l", "m",
               "n", "o", "p", "q", "r", "s", "t", "u", "v", "w", "x", "y", "z">>
UpperCase == <<"A", "B", "C", "D", "E", "F", "G", "H", "I", "J", "K", "L", "M",
               "N", "O", "P", "Q", "R", "S", "T", "U", "V", "W", "X", "Y", "Z">>
\* the bytes that bytes.split() and int() take for whitespace
Whitespace == {" ", "\t", LF, "x0B", "\f", CR}
\* the characters that str.split() takes for whitespace, among those of the
\* model: the separators 0x1C..0x1F as well
UnicodeWhitespace == Whitespace \cup {"x1C", "x1D", "x1E", "x1F"}

IsDigit(c) == \E i \in 1..10 : Digits[i] = c
DigitVal(c) == (CHOOSE i \in 1..10 : Digits[i] = c) - 1

\* s[a..] (Python slice s[a-1:])
Drop(s, n) == SubSeq(s, n + 1, Len(s))

RECURSIVE rstrip(_, _)
\* bytes.rstrip(chars): drop every trailing byte that is in chars
rstrip(s, chars) ==
    IF Len(s) > 0 /\ s[Len(s)] \in chars
    THEN rstrip(SubSeq(s, 1, Len(s) - 1), chars)
    ELSE s

RECURSIVE lstrip(_, _)
lstrip(s, chars) ==
    IF Len(s) > 0 /\ s[1] \in chars THEN lstrip(Tail(s), chars) ELSE s

RECURSIVE DigitsValue(_)
\* the number the digits of s spell, the underscores between them skipped
DigitsValue(s) ==
    IF Len(s) = 0 THEN 0
    ELSE IF s[Len(s)] = "_" THEN DigitsValue(SubSeq(s, 1, Len(s) - 1))
    ELSE 10 * DigitsValue(SubSeq(s, 1, Len(s) - 1)) + DigitVal(s[Len(s)])

\* int(b): surrounding whitespace is ignored, then an optional sign and
\* decimal digits, single underscores allowed between digits; anything else
\* raises ValueError (ok = FALSE).
ParseInt(b) ==
    LET t == rstrip(lstrip(b, Whitespace), Whitespace)
        signed == Len(t) > 0 /\ t[1] \in {"+", "-"}
        body == IF signed THEN Tail(t) ELSE t
        good == /\ Len(body) > 0
                /\ \A i \in 1..Len(body) :
                      \/ IsDigit(body[i])
                      \/ /\ body[i] = "_"
                         /\ 1 < i /\ i < Len(body)
                         /\ IsDigit(body[i - 1]) /\ IsDigit(body[i + 1])
    IN  IF ~good THEN [ok |-> FALSE, n |-> 0]
        ELSE [ok |-> TRUE,
              n |-> IF signed /\ t[1] = "-" THEN 0 - DigitsValue(body)
                    ELSE DigitsValue(body)]

RECURSIVE NatToBytes(_)
NatToBytes(n) ==
    IF n < 10 THEN <<Digits[n + 1]>>
    ELSE NatToBytes(n \div 10) \o <<Digits[(n % 10) + 1]>>

\* b'%d' % n
IntToBytes(n) == IF n < 0 THEN <<"-">> \o NatToBytes(0 - n) ELSE NatToBytes(n)

\* bytes.decode('utf-8') succeeds iff no byte is 0xFF
ValidUtf8(b) == \A i \in 1..Len(b) : b[i] # XFF

Upper(c) == IF \E i \in 1..26 : LowerCase[i] = c
            THEN UpperCase[CHOOSE i \in 1..26 : LowerCase[i] = c]
            ELSE c
\* str.upper()
upper(s) == [i \in 1..Len(s) |-> Upper(s[i])]

RECURSIVE split(_, _)
\* str.split() / bytes.split(): the maximal runs of characters that are not
\* of the whitespace ws
split(s, ws) ==
    LET t == lstrip(s, ws)
        n == IF \E i \in 1..Len(t) : t[i] \in ws
             THEN (CHOOSE i \in 1..Len(t) :
                     /\ t[i] \in ws
                     /\ \A j \in 1..(i - 1) : t[j] \notin ws) - 1
             ELSE Len(t)
    IN  IF Len(t) = 0 THEN <<>>
        ELSE <<SubSeq(t, 1, n)>> \o split(Drop(t, n), ws)

----------------------------------------------------------------------------
(* The buffered socket file: buf is every byte the peer has sent so far,   *)
(* pos the number already consumed, eof whether the peer has closed its    *)
(* sending side.  A read that needs bytes that have not arrived waits      *)
(* ("block").                                                              *)

Ok(v, pos) == [st |-> "ok", v |-> v, pos |-> pos]
Raise(exc) == [st |-> exc, v |-> None, pos |-> 0]
Block == [st |-> "block", v |-> None, pos |-> 0]

\* socket_file.readline(): up to and including the first LF, or whatever is
\* left at end of stream
readline(buf, pos, eof) ==
    LET lfs == {i \in (pos + 1)..Len(buf) : buf[i] = LF}
        i == CHOOSE i \in lfs : \A j \in lfs : i <= j
    IN  IF lfs # {} THEN Ok(SubSeq(buf, pos + 1, i), i)
        ELSE IF eof THEN Ok(Drop(buf, pos), Len(buf)) ELSE Block

\* socket_file.read(n): n bytes, fewer at end of stream; n = -1 reads to the
\* end of stream; n < -1 raises ValueError
read(buf, pos, eof, n) ==
    IF n < -1 THEN Raise("ValueError")
    ELSE IF n >= 0 /\ Len(buf) - pos >= n
         THEN Ok(SubSeq(buf, pos + 1, pos + n), pos + n)
    ELSE IF eof THEN Ok(Drop(buf, pos), Len(buf)) ELSE Block

----------------------------------------------------------------------------
(* ProtocolHandler: decoding *)

\* hash(v) succeeds: lists and dicts are unhashable
Hashable(v) == v.k \notin {"list", "dict"}

dict_get(d, key, default) ==
    IF \E i \in 1..Len(d) : d[i][1] = key
    THEN d[CHOOSE i \in 1..Len(d) : d[i][1] = key][2]
    ELSE default

HasKey(d, key) == \E i \in 1..Len(d) : d[i][1] = key

\* d[key] = value: an existing key keeps its place, a new one goes last
dict_setitem(d, key, value) ==
    IF HasKey(d, key)
    THEN [i \in 1..Len(d) |-> IF d[i][1] = key THEN <<key, value>> ELSE d[i]]
    ELSE Append(d, <<key, value>>)

RECURSIVE dict_zip(_, _)
\* dict(zip(items[0::2], items[1::2])) applied to the pairs after the first
\* done ones, d being the dict built so far
dict_zip(items, d) ==
    IF Len(items) < 2 THEN d
    ELSE dict_zip(Drop(items, 2), dict_setitem(d, items[1], items[2]))

handle_simple_string(buf, pos, eof) ==
    LET l == readline(buf, pos, eof)
        s == rstrip(l.v, {CR, LF})
    IN  IF l.st # "ok" THEN l
        ELSE IF ~ValidUtf8(s) THEN Raise("UnicodeDecodeError")
        ELSE Ok(Str(s), l.pos)

handle_error(buf, pos, eof) ==
    LET l == readline(buf, pos, eof)
        s == rstrip(l.v, {CR, LF})
    IN  IF l.st # "ok" THEN l
        ELSE IF ~ValidUtf8(s) THEN Raise("UnicodeDecodeError")
        ELSE Ok(Error(s), l.pos)

handle_integer(buf, pos, eof) ==
    LET l == readline(buf, pos, eof)
        n == ParseInt(rstrip(l.v, {CR, LF}))
    IN  IF l.st # "ok" THEN l
        ELSE IF ~n.ok THEN Raise("ValueError")
        ELSE Ok(Integer(n.n), l.pos)

handle_string(buf, pos, eof) ==
    LET l == readline(buf, pos, eof)
        n == ParseInt(rstrip(l.v, {CR, LF}))
        d == read(buf, l.pos, eof, n.n + 2)
        \* data[:-2]
        s == SubSeq(d.v, 1, Len(d.v) - 2)
    IN  IF l.st # "ok" THEN l
        ELSE IF ~n.ok THEN Raise("ValueError")
        ELSE IF n.n = -1 THEN Ok(None, l.pos)
        ELSE IF d.st # "ok" THEN d
        ELSE Ok(IF ValidUtf8(s) THEN Str(s) ELSE Bytes(s), d.pos)

RECURSIVE handle_request(_, _, _)
RECURSIVE handle_items(_, _, _, _)

\* [self.handle_request(socket_file) for _ in range(num)]
handle_items(buf, pos, eof, num) ==
    IF num <= 0 THEN Ok(<<>>, pos)
    ELSE LET first == handle_request(buf, pos, eof)
             rest == handle_items(buf, first.pos, eof, num - 1)
         IN  IF first.st # "ok" THEN first
             ELSE IF rest.st # "ok" THEN rest
             ELSE Ok(<<first.v>> \o rest.v, rest.pos)

handle_array(buf, pos, eof) ==
    LET l == readline(buf, pos, eof)
        n == ParseInt(rstrip(l.v, {CR, LF}))
        items == handle_items(buf, l.pos, eof, n.n)
    IN  IF l.st # "ok" THEN l
        ELSE IF ~n.ok THEN Raise("ValueError")
        ELSE IF items.st # "ok" THEN items
        ELSE Ok(List(items.v), items.pos)

handle_dict(buf, pos, eof) ==
    LET l == readline(buf, pos, eof)
        n == ParseInt(rstrip(l.v, {CR, LF}))
        items == handle_items(buf, l.pos, eof, n.n * 2)
    IN  IF l.st # "ok" THEN l
        ELSE IF ~n.ok THEN Raise("ValueError")
        ELSE IF items.st # "ok" THEN items
        ELSE IF \E i \in 1..Len(items.v) : i % 2 = 1 /\ ~Hashable(items.v[i])
             THEN Raise("TypeError")
        ELSE Ok(Dict(dict_zip(items.v, <<>>)), items.pos)

handle_request(buf, pos, eof) ==
    LET first_byte == read(buf, pos, eof, 1)
        tag == first_byte.v[1]
        p == first_byte.pos
    IN  IF first_byte.st # "ok" THEN first_byte
        ELSE IF first_byte.v = <<>> THEN Raise("Disconnect")
        ELSE IF tag = "+" THEN handle_simple_string(buf, p, eof)
        ELSE IF tag = "-" THEN handle_error(buf, p, eof)
        ELSE IF tag = ":" THEN handle_integer(buf, p, eof)
        ELSE IF tag = "$" THEN handle_string(buf, p, eof)
        ELSE IF tag = "*" THEN handle_array(buf, p, eof)
        ELSE IF tag = "%" THEN handle_dict(buf, p, eof)
        ELSE Raise("CommandError")

----------------------------------------------------------------------------
(* ProtocolHandler: encoding *)

RECURSIVE _write(_)
RECURSIVE write_items(_)
RECURSIVE write_pairs(_)

\* for item in data: self._write(buf, item)
write_items(xs) ==
    IF Len(xs) = 0 THEN Ok(<<>>, 0)
    ELSE LET a == _write(xs[1])
             b == write_items(Tail(xs))
         IN  IF a.st # "ok" THEN a
             ELSE IF b.st # "ok" THEN b
             ELSE Ok(a.v \o b.v, 0)

\* for k, v in data.items(): self._write(buf, k); self._write(buf, v)
write_pairs(kvs) ==
    IF Len(kvs) = 0 THEN Ok(<<>>, 0)
    ELSE LET a == write_items(kvs[1])
             b == write_pairs(Tail(kvs))
         IN  IF a.st # "ok" THEN a
             ELSE IF b.st # "ok" THEN b
             ELSE Ok(a.v \o b.v, 0)

\* the bytes _write appends to buf for data, or the exception it raises
_write(data) ==
    IF data.k \in {"str", "bytes"}
    THEN Ok(<<"$">> \o IntToBytes(Len(data.p)) \o <<CR, LF>> \o data.p \o <<CR, LF>>, 0)
    ELSE IF data.k = "int"
    THEN Ok(<<":">> \o IntToBytes(data.p) \o <<CR, LF>>, 0)
    ELSE IF data.k = "err"
    THEN Ok(<<"-">> \o data.p \o <<CR, LF>>, 0)
    ELSE IF data.k = "list"
    THEN LET r == write_items(data.p)
         IN  IF r.st # "ok" THEN r
             ELSE Ok(<<"*">> \o IntToBytes(Len(data.p)) \o <<CR, LF>> \o r.v, 0)
    ELSE IF data.k = "dict"
    THEN LET r == write_pairs(data.p)
         IN  IF r.st # "ok" THEN r
             ELSE Ok(<<"%">> \o IntToBytes(Len(data.p)) \o <<CR, LF>> \o r.v, 0)
    ELSE IF data.k = "none"
    THEN Ok(<<"$", "-", "1", CR, LF>>, 0)
    ELSE Raise("CommandError")

----------------------------------------------------------------------------
(* Server: the command router.  The store self._kv is a Python dict: a     *)
(* sequence of <<key, value>> pairs with distinct keys, in insertion order. *)

MsgNotList ==
    <<"R", "e", "q", "u", "e", "s", "t", " ", "m", "u", "s", "t", 
      " ", "b", "e", " ", "l", "i", "s", "t", " ", "o", "r", " ", 
      "s", "i", "m", "p", "l", "e", " ", "s", "t", "r", "i", "n", 
      "g">>
MsgMissing ==
    <<"M", "i", "s", "s", "i", "n", "g", " ", "c", "o", "m", "m", 
      "a", "n", "d">>
MsgNotFound ==
    <<"C", "o", "m", "m", "a", "n", "d", " ", "n", "o", "t", " ", 
      "f", "o", "u", "n", "d", ":", " ">>

GET == <<"G", "E", "T">>
SET == <<"S", "E", "T">>
DELETE == <<"D", "E", "L", "E", "T", "E">>
FLUSH == <<"F", "L", "U", "S", "H">>
MGET == <<"M", "G", "E", "T">>
MSET == <<"M", "S", "E", "T">>

\* the keys of self._commands
get_commands == {GET, SET, DELETE, FLUSH, MGET, MSET}

\* the handler self._commands maps a key to, by name
Handler(cmd) ==
    IF cmd = GET THEN "get"
    ELSE IF cmd = SET THEN "set"
    ELSE IF cmd = DELETE THEN "delete"
    ELSE IF cmd = FLUSH THEN "flush"
    ELSE IF cmd = MGET THEN "mget"
    ELSE "mset"

\* (mutant) data = [data]: the text taken as the one token
TokensWhole(data) == <<data>>

\* data.split() of a non-list request: text and bytes split on whitespace,
\* every other kind has no split method
Tokens(data) ==
    LET words == split(data.p, IF data.k = "str" THEN UnicodeWhitespace
                               ELSE Whitespace)
    IN  [i \in 1..Len(words) |-> [k |-> data.k, p |-> words[i]]]

\* A call the router resolved, or the exception get_response raised first
Call(cmd, args) == [st |-> "call", v |-> Str(cmd), args |-> args]
RaiseIn(exc, msg) == [st |-> exc, v |-> Str(msg), args |-> <<>>]

\* the number of positional arguments the handler accepts (-1: any number)
Arity(cmd) ==
    IF cmd \in {GET, DELETE} THEN 1
    ELSE IF cmd = SET THEN 2
    ELSE IF cmd = FLUSH THEN 0
    ELSE -1

\* (mutant) get_response without cmd = cmd.upper()
get_response_exact(data) ==
    LET toks == IF data.k = "list" THEN data.p ELSE Tokens(data)
        first == toks[1]
        decoded == first.k = "str" \/ (first.k = "bytes" /\ ValidUtf8(first.p))
        cmd == first.p
    IN  IF data.k \notin {"list", "str", "bytes"}
        THEN RaiseIn("CommandError", MsgNotList)
        ELSE IF Len(toks) = 0 THEN RaiseIn("CommandError", MsgMissing)
        ELSE IF first.k = "bytes" /\ ~ValidUtf8(first.p)
        THEN RaiseIn("UnicodeDecodeError", <<>>)
        ELSE IF ~decoded THEN RaiseIn("AttributeError", <<>>)
        ELSE IF cmd \notin get_commands
        THEN RaiseIn("CommandError", MsgNotFound \o cmd)
        ELSE IF Arity(cmd) >= 0 /\ Len(toks) - 1 # Arity(cmd)
        THEN RaiseIn("TypeError", <<>>)
        ELSE Call(cmd, Tail(toks))

\* get_response up to the call self._commands[cmd](*data[1:]): the handler
\* and arguments it calls, or the exception raised before the handler runs
get_response(data) ==
    LET toks == IF data.k = "list" THEN data.p ELSE Tokens(data)
        first == toks[1]
        decoded == first.k = "str" \/ (first.k = "bytes" /\ ValidUtf8(first.p))
        cmd == upper(first.p)
    IN  IF data.k \notin {"list", "str", "bytes"}
        THEN RaiseIn("CommandError", MsgNotList)
        ELSE IF Len(toks) = 0 THEN RaiseIn("CommandError", MsgMissing)
        ELSE IF first.k = "bytes" /\ ~ValidUtf8(first.p)
        THEN RaiseIn("UnicodeDecodeError", <<>>)
        ELSE IF ~decoded THEN RaiseIn("AttributeError", <<>>)
        ELSE IF cmd \notin get_commands
        THEN RaiseIn("CommandError", MsgNotFound \o cmd)
        ELSE IF Arity(cmd) >= 0 /\ Len(toks) - 1 # Arity(cmd)
        THEN RaiseIn("TypeError", <<>>)
        ELSE Call(cmd, Tail(toks))

----------------------------------------------------------------------------
(* Server: the handlers.  A handler runs in steps, each touching the store *)
(* at most once; f holds its locals: args, the arguments not yet consumed, *)
(* count and acc, what it has counted and collected.  A step yields        *)
(* [st, v, kv, f]: "go" with the locals for the next step, "ok" with the   *)
(* value returned, or the exception raised; kv is the store it leaves.     *)

NoFrame == [args |-> <<>>, count |-> 0, acc |-> <<>>]

Go(f, store) == [st |-> "go", v |-> None, kv |-> store, f |-> f]
Ret(v, store) == [st |-> "ok", v |-> v, kv |-> store, f |-> NoFrame]
Fault(exc, store) == [st |-> exc, v |-> None, kv |-> store, f |-> NoFrame]

\* d.pop(key, None): the dict without key
dict_pop(d, key) ==
    LET keep == {i \in 1..Len(d) : d[i][1] # key}
        idx(n) == CHOOSE i \in keep : Cardinality({j \in keep : j <= i}) = n
    IN  [n \in 1..Cardinality(keep) |-> d[idx(n)]]

get(f, store) ==
    LET key == f.args[1]
    IN  IF ~Hashable(key) THEN Fault("TypeError", store)
        ELSE Ret(dict_get(store, key, None), store)

\* (mutant) self._kv.setdefault(key, value)
set_default(f, store) ==
    LET key == f.args[1]
        value == f.args[2]
    IN  IF ~Hashable(key) THEN Fault("TypeError", store)
        ELSE Ret(Integer(1),
                 IF HasKey(store, key) THEN store
                 ELSE dict_setitem(store, key, value))

set(f, store) ==
    LET key == f.args[1]
        value == f.args[2]
    IN  IF ~Hashable(key) THEN Fault("TypeError", store)
        ELSE Ret(Integer(1), dict_setitem(store, key, value))

\* dict.pop of an empty dict returns the default without hashing the key
delete(f, store) ==
    LET key == f.args[1]
    IN  IF ~Hashable(key) /\ store # <<>> THEN Fault("TypeError", store)
        ELSE Ret(IF dict_get(store, key, None) # None
                 THEN Integer(1) ELSE Integer(0),
                 dict_pop(store, key))

\* (mutant) self._kv.clear() before count = len(self._kv)
flush_count_last(f, store) ==
    IF f.acc = <<>>
    THEN Go([f EXCEPT !.count = 0, !.acc = <<None>>], store)
    ELSE Ret(Integer(f.count), <<>>)

\* count = len(self._kv), then self._kv.clear(); return count
flush(f, store) ==
    IF f.acc = <<>>
    THEN Go([f EXCEPT !.count = Len(store), !.acc = <<None>>], store)
    ELSE Ret(Integer(f.count), <<>>)

\* (mutant) return (self._kv.get(k) for k in keys): a generator object
mget_generator(f, store) == Ret([k |-> "generator", p |-> <<>>], store)

\* (mutant) [self._kv[k] for k in keys if k in self._kv]
mget_present(f, store) ==
    IF f.args = <<>> THEN Ret(List(f.acc), store)
    ELSE IF ~Hashable(f.args[1]) THEN Fault("TypeError", store)
    ELSE Go([f EXCEPT !.args = Tail(f.args),
                      !.acc = IF HasKey(store, f.args[1])
                              THEN Append(f.acc, dict_get(store, f.args[1], None))
                              ELSE f.acc],
            store)

\* one element of [self._kv.get(k) for k in keys], or the return
mget(f, store) ==
    IF f.args = <<>> THEN Ret(List(f.acc), store)
    ELSE IF ~Hashable(f.args[1]) THEN Fault("TypeError", store)
    ELSE Go([f EXCEPT !.args = Tail(f.args),
                      !.acc = Append(f.acc, dict_get(store, f.args[1], None))],
            store)

\* (mutant) mset checking first that the items come in pairs
mset_checked(f, store) ==
    IF f.args = <<>> THEN Ret(Integer(f.count), store)
    ELSE IF Len(f.args) % 2 = 1 THEN Fault("StopIteration", store)
    ELSE IF ~Hashable(f.args[1]) THEN Fault("TypeError", store)
    ELSE Go([f EXCEPT !.args = Drop(f.args, 2), !.count = f.count + 1],
            dict_setitem(store, f.args[1], f.args[2]))

\* one turn of  for k in it: v = next(it); self._kv[k] = v; count += 1
\* or the return
mset(f, store) ==
    IF f.args = <<>> THEN Ret(Integer(f.count), store)
    ELSE IF Len(f.args) = 1 THEN Fault("StopIteration", store)
    ELSE IF ~Hashable(f.args[1]) THEN Fault("TypeError", store)
    ELSE Go([f EXCEPT !.args = Drop(f.args, 2), !.count = f.count + 1],
            dict_setitem(store, f.args[1], f.args[2]))

Handlers == {"get", "set", "delete", "flush", "mget", "mset"}

\* what a step of handler h that ended as r did to the store: self._kv[k] = v,
\* self._kv.pop(k, None) or self._kv.clear()
Effect(h, f, r) ==
    IF (h = "set" /\ r.st = "ok") \/ (h = "mset" /\ r.st = "go")
    THEN <<[op |-> "setitem", key |-> f.args[1], value |-> f.args[2]]>>
    ELSE IF h = "delete" /\ r.st = "ok"
    THEN <<[op |-> "pop", key |-> f.args[1], value |-> None]>>
    ELSE IF h = "flush" /\ r.st = "ok"
    THEN <<[op |-> "clear", key |-> None, value |-> None]>>
    ELSE <<>>

\* the next step of handler h
HandlerStep(h, f, store) ==
    IF h = "get" THEN get(f, store)
    ELSE IF h = "set" THEN set(f, store)
    ELSE IF h = "delete" THEN delete(f, store)
    ELSE IF h = "flush" THEN flush(f, store)
    ELSE IF h = "mget" THEN mget(f, store)
    ELSE mset(f, store)

----------------------------------------------------------------------------
(* The traffic of the model: what the clients send *)

\* how many sessions the model runs, and how many chunks all clients
\* together send
NumSessions == 2
MaxSend == 2
\* how many commands the one client of the store runs sends
MaxCommands == 3

Sessions == 1..NumSessions

A == <<"a">>
B == <<"b">>
ONE == <<"1">>
TWO == <<"2">>

\* a request as a client library frames it: an Array of bulk strings
Req(words) == _write(List([i \in 1..Len(words) |-> Str(words[i])])).v

FOO == <<"f", "o", "o">>
BulkA == <<"$", "1", CR, LF, "a", CR, LF>>
BulkGET == <<"$", "3", CR, LF>> \o GET \o <<CR, LF>>
BulkSET == <<"$", "3", CR, LF>> \o SET \o <<CR, LF>>

\* a frame with a tag byte that is none of + - : $ * %
BadTag == <<"!", CR, LF>>
\* GET with no argument
GetNoArg == Req(<<GET>>)
\* *2 GET and the start of a second element that never arrives
NestedBadTag == <<"*", "2", CR, LF>> \o BulkGET \o <<"!", "a", CR, LF>>
\* SET a with a bulk value declared 1 byte long and holding "12"
ShortBulk ==
    <<"*", "3", CR, LF>> \o BulkSET \o BulkA \o <<"$", "1", CR, LF, "1", "2", CR, LF>>

\* non-numeric lines after : $ * %
NonNumeric ==
    { <<":", "x", CR, LF>>, <<"$", "x", CR, LF>>,
      <<"*", "x", CR, LF>>, <<"%", "x", CR, LF>> }
\* GET a with the key declared 3 bytes long, FLUSH declared 9 bytes long
LongBulk == <<"*", "2", CR, LF>> \o BulkGET \o <<"$", "3", CR, LF, "a", CR, LF>>
LongBulkTop == <<"$", "9", CR, LF>> \o FLUSH \o <<CR, LF>>
\* *2 GET and nothing more; a Map of one pair with its key only
TruncArray == <<"*", "2", CR, LF>> \o BulkGET
TruncMap == <<"%", "1", CR, LF, ":", "1", CR, LF>>

\* the chunks of a client working on two keys
StoreChunks ==
    { Req(<<SET, A, ONE>>), Req(<<SET, A, TWO>>), Req(<<SET, B, ONE>>),
      _write(List(<<Str(SET), Str(A), None>>)).v,
      Req(<<GET, A>>), Req(<<GET, B>>), Req(<<DELETE, A>>), Req(<<FLUSH>>),
      Req(<<MSET, A, TWO, B, ONE>>), Req(<<MGET, A, B>>),
      \* a key given twice, and no key at all
      Req(<<MSET, A, ONE, A, TWO>>), Req(<<MSET>>), Req(<<MGET>>),
      \* and making mistakes: an unknown command, a missing key, a bad tag
      Req(<<FOO>>), GetNoArg, BadTag }

\* the chunks concurrently connected clients send: every command, and one
\* request for each way the loop can end or answer with an error.  GET a
\* arrives in two chunks, the handler waiting inside the frame in between;
\* its second chunk alone is the unknown command a.
CommandChunks ==
    { TruncArray, BulkA, Req(<<SET, A, ONE>>), Req(<<DELETE, A>>),
      Req(<<FLUSH>>), Req(<<MGET, A, B>>), Req(<<MSET, A, TWO, B, ONE>>),
      Req(<<MSET, B, TWO, A>>), GetNoArg, BadTag }

\* an Array declared to hold -1 elements
NegArray == <<"*", "-", "1", CR, LF>>
\* a Map declared to hold 2 pairs, both under the key a
DupMap == <<"%", "2", CR, LF>> \o BulkA \o <<":", "1", CR, LF>>
                               \o BulkA \o <<":", "2", CR, LF>>

\* a request as one line of text, in a SimpleString frame
Line(text) == <<"+">> \o text \o <<CR, LF>>

\* the chunks of a client that writes command names in any letter case and
\* requests as Arrays or as lines of text
RouterChunks ==
    { Req(<<SET, A, ONE>>), Req(<<GET, A>>),
      Req(<<<<"s", "E", "t">>, <<"A">>, TWO>>),
      Req(<<<<"g", "e", "t">>, A>>), Req(<<<<"G", "e", "t">>, <<"A">>>>),
      Req(<<FOO>>), Req(<<<<"f", "l", "u", "s", "h">>, A>>),
      Line(SET \o <<" ", "a", " ", "2">>),
      Line(<<" ", "g", "e", "t", "\t", "x0B", "a", "x1C">>),
      Line(<<"m", "s", "e", "t", " ", "b", " ", "2", " ", "a">>),
      Line(<<"b", "a", "r", " ", "a">>),
      Line(<<" ">>),
      \* a line of text as a bulk string: FLUSH
      <<"$", "5", CR, LF>> \o FLUSH \o <<CR, LF>>,
      BadTag }

\* SET a to the Map {1: Error('x')}
SetMap ==
    <<"*", "3", CR, LF>> \o BulkSET \o BulkA
        \o <<"%", "1", CR, LF, ":", "1", CR, LF, "-", "x", CR, LF>>

\* the size of a pool smaller than the number of clients
OneSlot == 1

\* the chunks of clients that queue for the pool: commands, and a request
\* for each way a session ends early
PoolChunks ==
    { Req(<<SET, A, ONE>>), Req(<<GET, A>>), Req(<<FOO>>),
      Req(<<MSET, B, TWO, A>>), GetNoArg, BadTag }

\* the chunks a single client sends: well-formed, unknown, wrongly framed,
\* truncated and pipelined requests
WireChunks ==
    { Req(<<GET, A>>), Req(<<SET, A, ONE>>), Req(<<DELETE, A>>),
      Req(<<FLUSH>>), Req(<<MGET, A, B>>), Req(<<MSET, A, TWO, B, ONE>>),
      Req(<<MSET, B, TWO, A>>), Req(<<FOO>>), GetNoArg, BadTag,
      \* SET a null
      _write(List(<<Str(SET), Str(A), None>>)).v,
      \* lower-case command name
      Req(<<<<"g", "e", "t">>, A>>),
      \* text requests: "SET a 2", and one with no token
      <<"+">> \o SET \o <<" ", "a", " ", "2", CR, LF>>,
      <<"+", " ", CR, LF>>,
      \* requests that are neither list nor text: Integer, null, Error, Map
      <<":", "\t", "5", "\f", CR, LF>>,
      <<":", "1", "_", "0", CR, LF>>,
      <<"$", "-", "1", CR, LF>>,
      <<"-", "x", CR, LF>>,
      <<"%", "0", CR, LF>>,
      \* the empty Array
      <<"*", "0", CR, LF>>,
      \* wrong arity: FLUSH a, SET a, DELETE a b
      Req(<<FLUSH, A>>), Req(<<SET, A>>), Req(<<DELETE, A, B>>),
      \* a command name that is no text, a key that is a list
      <<"*", "1", CR, LF, ":", "1", CR, LF>>,
      <<"*", "2", CR, LF>> \o BulkGET \o <<"*", "0", CR, LF>>,
      \* mis-framed and truncated requests
      NestedBadTag, ShortBulk, LongBulk, LongBulkTop, TruncArray, TruncMap,
      \* counts that no elements can match
      NegArray, DupMap,
      \* a value that is a Map holding an ErrorValue
      SetMap,
      \* two requests in one chunk
      Req(<<SET, B, ONE>>) \o Req(<<GET, B>>),
      \* a bulk request that is not UTF-8: GET 0xFF, and 0x1C, which is no
      \* whitespace in bytes
      <<"$", "5", CR, LF>> \o GET \o <<" ", XFF, CR, LF>>,
      <<"$", "7", CR, LF>> \o GET \o <<"\t", "a", "x1C", XFF, CR, LF>> }
      \cup NonNumeric

----------------------------------------------------------------------------
(* Server.connection_handler, one greenlet per accepted connection.        *)
(* gevent switches greenlets only inside socket reads and writes, so a     *)
(* greenlet keeps the processor (running) between two such points.         *)

VARIABLES
    env,      \* [clients, chunks, sends, pool]: who connects, what they may
              \* send, how many chunks in all, and the size of the pool
    kv,       \* Server._kv
    pc,       \* per session: where its connection_handler stands
    inbuf,    \* per session: bytes received and not yet consumed
    eof,      \* per session: the peer has closed its sending side
    data,     \* per session: the request last decoded
    frame,    \* per session: the locals of the handler being run
    resp,     \* per session: the response to write
    out,      \* per session: the chunks written to the socket, in order
    how,      \* per session: the exception that ended the loop ("" if none)
    ndec,     \* per session: how many requests were decoded
    raw,      \* per session: the bytes the request last decoded was read from
    nsent,    \* how many chunks the clients have sent in all
    log,      \* the writes and removals done on Server._kv, in order
    kv0,      \* per session (history): the store when its handler was called
    running,  \* the session whose greenlet has the processor, 0 for the hub
    val,      \* codec: the value to encode, or the Map a peer puts in a frame
    wire,     \* codec: the bytes in the stream
    dec,      \* codec: what handle_request made of the bytes
    stage     \* codec: "value", "written", "read"; "off" when the server runs

codec == <<val, wire, dec, stage>>
server == <<env, kv, pc, inbuf, eof, data, frame, resp, out, how, ndec, raw,
            nsent, log, kv0, running>>
vars == <<server, codec>>

max_clients == 64

\* (mutant) greenlets may be switched anywhere, as threads are
IOPointsPreemptive == {"AwaitRequest", "EncodeResponse", "Dispatch"} \cup Handlers

\* the points of connection_handler at which gevent may switch greenlets:
\* the socket read of handle_request and the socket write of write_response
IOPoints == {"AwaitRequest", "EncodeResponse"}

\* (mutant) a greenlet that ended by an exception keeps its slot
ActiveLeak == {s \in Sessions : pc[s] # "Idle" /\ ~(pc[s] = "Closed" /\ how[s] = "")}

\* the greenlets in self._pool: spawned and not yet ended
Active == {s \in Sessions : pc[s] \notin {"Idle", "Closed"}}

\* Server(max_clients=pool), no connection made yet
InitServer(clients, chunks, sends, pool) ==
    /\ env = [clients |-> clients, chunks |-> chunks, sends |-> sends,
              pool |-> pool]
    /\ kv = <<>>
    /\ pc = [s \in Sessions |-> "Idle"]
    /\ inbuf = [s \in Sessions |-> <<>>]
    /\ eof = [s \in Sessions |-> FALSE]
    /\ data = [s \in Sessions |-> None]
    /\ frame = [s \in Sessions |-> NoFrame]
    /\ resp = [s \in Sessions |-> None]
    /\ out = [s \in Sessions |-> <<>>]
    /\ how = [s \in Sessions |-> ""]
    /\ ndec = [s \in Sessions |-> 0]
    /\ raw = [s \in Sessions |-> <<>>]
    /\ nsent = 0
    /\ log = <<>>
    /\ kv0 = [s \in Sessions |-> <<>>]
    /\ running = 0

\* Server(), the pool of the default size
InitWith(clients, chunks, sends) == InitServer(clients, chunks, sends, max_clients)

\* the codec is not exercised on its own while the server runs
CodecOff ==
    /\ val = None
    /\ wire = <<>>
    /\ dec = Block
    /\ stage = "off"

Init == InitWith(Sessions, CommandChunks, MaxSend) /\ CodecOff
InitWire == InitWith({1}, WireChunks, MaxSend) /\ CodecOff
InitStore == InitWith({1}, StoreChunks, MaxCommands) /\ CodecOff
InitRouter == InitWith({1}, RouterChunks, MaxSend) /\ CodecOff
\* Server(max_clients=1) and more clients than that
InitPool == InitServer(Sessions, PoolChunks, MaxSend, OneSlot) /\ CodecOff

\* (mutant) StreamServer without spawn=self._pool: a greenlet per connection
AcceptUnbounded(s) ==
    /\ running = 0
    /\ s \in env.clients
    /\ pc[s] = "Idle"
    /\ \A t \in 1..(s - 1) : pc[t] # "Idle"
    /\ pc' = [pc EXCEPT ![s] = "AwaitRequest"]
    /\ UNCHANGED <<env, kv, log, inbuf, eof, data, frame, resp, out, how,
                   ndec, raw, codec, nsent, kv0, running>>

\* StreamServer accepts a connection and spawns its handler in the pool,
\* which it does only while the pool is not full; a connection made
\* meanwhile waits in the backlog of the listening socket.  Sessions are
\* numbered in the order they are accepted.
Accept(s) ==
    /\ running = 0
    /\ s \in env.clients
    /\ pc[s] = "Idle"
    /\ \A t \in 1..(s - 1) : pc[t] # "Idle"
    /\ Cardinality(Active) < env.pool
    /\ pc' = [pc EXCEPT ![s] = "AwaitRequest"]
    /\ UNCHANGED <<env, kv, log, inbuf, eof, data, frame, resp, out, how,
                   ndec, raw, codec, nsent, kv0, running>>

\* the peer sends a chunk of bytes to a handler that waits in a read,
\* between two requests or inside a frame of which only a part has arrived:
\* the hub resumes the handler, which reads on.  (When the bytes arrived
\* matters only at the read that sees them.)
Send(s, c) ==
    /\ running = 0
    /\ pc[s] = "AwaitRequest"
    /\ ~eof[s]
    /\ handle_request(inbuf[s], 0, FALSE).st = "block"
    /\ nsent < env.sends
    /\ inbuf' = [inbuf EXCEPT ![s] = inbuf[s] \o c]
    /\ nsent' = nsent + 1
    /\ running' = s
    /\ UNCHANGED <<env, kv, log, pc, eof, data, frame, resp, out, how, ndec,
                   raw, codec, kv0>>

\* the peer closes its sending side while the handler waits in a read: the
\* hub resumes the handler, whose read now ends at the end of the stream
Shutdown(s) ==
    /\ running = 0
    /\ pc[s] = "AwaitRequest"
    /\ ~eof[s]
    /\ handle_request(inbuf[s], 0, FALSE).st = "block"
    /\ eof' = [eof EXCEPT ![s] = TRUE]
    /\ running' = s
    /\ UNCHANGED <<env, kv, log, pc, inbuf, data, frame, resp, out, how,
                   ndec, raw, codec, nsent, kv0>>

\* the hub resumes a greenlet whose socket is ready
Schedule(s) ==
    /\ running = 0
    /\ \/ pc[s] = "EncodeResponse"
       \/ /\ pc[s] = "AwaitRequest"
          /\ handle_request(inbuf[s], 0, eof[s]).st # "block"
    /\ running' = s
    /\ UNCHANGED <<env, kv, log, pc, inbuf, eof, data, frame, resp, out, how,
                   ndec, raw, codec, nsent, kv0>>

\* a greenlet gives up the processor inside a socket operation that cannot
\* complete at once: a read whose bytes have not arrived, or a write
Yield(s) ==
    /\ running = s
    /\ pc[s] \in IOPoints
    /\ pc[s] = "AwaitRequest" => handle_request(inbuf[s], 0, eof[s]).st = "block"
    /\ running' = 0
    /\ UNCHANGED <<env, kv, log, pc, inbuf, eof, data, frame, resp, out, how,
                   ndec, raw, codec, nsent, kv0>>

\* an exception leaves connection_handler: the greenlet ends
Die(s, exc) ==
    /\ pc' = [pc EXCEPT ![s] = "Closed"]
    /\ how' = [how EXCEPT ![s] = exc]
    /\ frame' = [frame EXCEPT ![s] = NoFrame]
    /\ running' = 0

\* a handler returned v: connection_handler goes on to write_response
Return(s, v) ==
    /\ pc' = [pc EXCEPT ![s] = "EncodeResponse"]
    /\ resp' = [resp EXCEPT ![s] = v]
    /\ frame' = [frame EXCEPT ![s] = NoFrame]

\* data = self._protocol.handle_request(socket_file), a request decoded
Decode(s) ==
    LET r == handle_request(inbuf[s], 0, eof[s])
    IN  /\ running = s
        /\ pc[s] = "AwaitRequest"
        /\ r.st = "ok"
        /\ data' = [data EXCEPT ![s] = r.v]
        /\ inbuf' = [inbuf EXCEPT ![s] = Drop(inbuf[s], r.pos)]
        /\ ndec' = [ndec EXCEPT ![s] = ndec[s] + 1]
        /\ raw' = [raw EXCEPT ![s] = SubSeq(inbuf[s], 1, r.pos)]
        /\ pc' = [pc EXCEPT ![s] = "Dispatch"]
        /\ UNCHANGED <<env, kv, log, eof, frame, resp, out, how, nsent, kv0,
                       running, codec>>

\* (mutant) Disconnect not caught
DisconnectUncaught(s) ==
    LET r == handle_request(inbuf[s], 0, eof[s])
    IN  /\ running = s
        /\ pc[s] = "AwaitRequest"
        /\ r.st = "Disconnect"
        /\ Die(s, "Disconnect")
        /\ UNCHANGED <<env, kv, log, inbuf, eof, data, resp, out, ndec, raw,
                       codec, nsent, kv0>>

\* except Disconnect: break
Disconnect(s) ==
    LET r == handle_request(inbuf[s], 0, eof[s])
    IN  /\ running = s
        /\ pc[s] = "AwaitRequest"
        /\ r.st = "Disconnect"
        /\ Die(s, "")
        /\ UNCHANGED <<env, kv, log, inbuf, eof, data, resp, out, ndec, raw,
                       codec, nsent, kv0>>

\* (mutant) every exception of handle_request ends the loop as Disconnect does
DecodeFaultCaught(s) ==
    LET r == handle_request(inbuf[s], 0, eof[s])
    IN  /\ running = s
        /\ pc[s] = "AwaitRequest"
        /\ r.st \notin {"ok", "block", "Disconnect"}
        /\ Die(s, "")
        /\ UNCHANGED <<env, kv, log, inbuf, eof, data, resp, out, ndec, raw,
                       codec, nsent, kv0>>

\* handle_request raised anything but Disconnect
DecodeFault(s) ==
    LET r == handle_request(inbuf[s], 0, eof[s])
    IN  /\ running = s
        /\ pc[s] = "AwaitRequest"
        /\ r.st \notin {"ok", "block", "Disconnect"}
        /\ Die(s, r.st)
        /\ UNCHANGED <<env, kv, log, inbuf, eof, data, resp, out, ndec, raw,
                       codec, nsent, kv0>>

\* resp = self.get_response(data), up to the call of the handler
DispatchCall(s) ==
    LET c == get_response(data[s])
    IN  /\ running = s
        /\ pc[s] = "Dispatch"
        /\ c.st = "call"
        /\ pc' = [pc EXCEPT ![s] = Handler(c.v.p)]
        /\ frame' = [frame EXCEPT ![s] = [NoFrame EXCEPT !.args = c.args]]
        /\ kv0' = [kv0 EXCEPT ![s] = kv]
        /\ UNCHANGED <<env, kv, log, inbuf, eof, data, resp, out, how, ndec,
                       raw, codec, nsent, running>>

\* (mutant) CommandError not caught
DispatchErrorUncaught(s) ==
    LET c == get_response(data[s])
    IN  /\ running = s
        /\ pc[s] = "Dispatch"
        /\ c.st = "CommandError"
        /\ Die(s, c.st)
        /\ UNCHANGED <<env, kv, log, inbuf, eof, data, resp, out, ndec, raw,
                       codec, nsent, kv0>>

\* except CommandError as e: resp = Error(str(e))
DispatchError(s) ==
    LET c == get_response(data[s])
    IN  /\ running = s
        /\ pc[s] = "Dispatch"
        /\ c.st = "CommandError"
        /\ Return(s, Error(c.v.p))
        /\ UNCHANGED <<env, kv, log, inbuf, eof, data, out, how, ndec, raw,
                       codec, nsent, kv0, running>>

\* (mutant) every exception of get_response is answered with an Error
DispatchFaultCaught(s) ==
    LET c == get_response(data[s])
    IN  /\ running = s
        /\ pc[s] = "Dispatch"
        /\ c.st \notin {"call", "CommandError"}
        /\ Return(s, Error(<<>>))
        /\ UNCHANGED <<env, kv, log, inbuf, eof, data, out, how, ndec, raw,
                       codec, nsent, kv0, running>>

\* get_response raised anything but CommandError
DispatchFault(s) ==
    LET c == get_response(data[s])
    IN  /\ running = s
        /\ pc[s] = "Dispatch"
        /\ c.st \notin {"call", "CommandError"}
        /\ Die(s, c.st)
        /\ UNCHANGED <<env, kv, log, inbuf, eof, data, resp, out, ndec, raw,
                       codec, nsent, kv0>>

\* one step of the handler session s is in
Step(s, h) ==
    LET r == HandlerStep(h, frame[s], kv)
    IN  /\ running = s
        /\ pc[s] = h
        /\ kv' = r.kv
        /\ log' = log \o Effect(h, frame[s], r)
        /\ IF r.st = "go"
           THEN /\ frame' = [frame EXCEPT ![s] = r.f]
                /\ UNCHANGED <<pc, resp, how, running>>
           ELSE IF r.st = "ok"
           THEN Return(s, r.v) /\ UNCHANGED <<how, running>>
           ELSE Die(s, r.st) /\ UNCHANGED resp
        /\ UNCHANGED <<env, inbuf, eof, data, out, ndec, raw, codec, nsent,
                       kv0>>

Get(s) == Step(s, "get")
Set(s) == Step(s, "set")
Delete(s) == Step(s, "delete")
Flush(s) == Step(s, "flush")
Mget(s) == Step(s, "mget")
Mset(s) == Step(s, "mset")

\* (mutant) write_response without socket_file.flush(): the response stays
\* in the buffer of the socket file
WriteUnflushed(s) ==
    LET w == _write(resp[s])
    IN  /\ running = s
        /\ pc[s] = "EncodeResponse"
        /\ IF w.st = "ok"
           THEN /\ pc' = [pc EXCEPT ![s] = "AwaitRequest"]
                /\ resp' = [resp EXCEPT ![s] = None]
                /\ UNCHANGED <<out, how, frame, running>>
           ELSE Die(s, w.st) /\ UNCHANGED <<out, resp>>
        /\ UNCHANGED <<env, kv, log, inbuf, eof, data, ndec, raw, codec,
                       nsent, kv0>>

\* self._protocol.write_response(socket_file, resp)
Write(s) ==
    LET w == _write(resp[s])
    IN  /\ running = s
        /\ pc[s] = "EncodeResponse"
        /\ IF w.st = "ok"
           THEN /\ out' = [out EXCEPT ![s] = Append(out[s], w.v)]
                /\ pc' = [pc EXCEPT ![s] = "AwaitRequest"]
                /\ resp' = [resp EXCEPT ![s] = None]
                /\ UNCHANGED <<how, frame, running>>
           ELSE Die(s, w.st) /\ UNCHANGED <<out, resp>>
        /\ UNCHANGED <<env, kv, log, inbuf, eof, data, ndec, raw, codec,
                       nsent, kv0>>

Next ==
    \E s \in Sessions :
        \/ Accept(s)
        \/ \E c \in env.chunks : Send(s, c)
        \/ Shutdown(s)
        \/ Schedule(s)
        \/ Yield(s)
        \/ Decode(s)
        \/ Disconnect(s)
        \/ DecodeFault(s)
        \/ DispatchCall(s)
        \/ DispatchError(s)
        \/ DispatchFault(s)
        \/ Get(s)
        \/ Set(s)
        \/ Delete(s)
        \/ Flush(s)
        \/ Mget(s)
        \/ Mset(s)
        \/ Write(s)

\* clients connected concurrently, sending commands
Spec == Init /\ [][Next]_vars
\* one client, sending every kind of frame
SpecWire == InitWire /\ [][Next]_vars
\* one client, running commands on two keys
SpecStore == InitStore /\ [][Next]_vars
\* one client, writing command names and requests in every accepted form
SpecRouter == InitRouter /\ [][Next]_vars
\* clients queueing for a pool of one slot.  The hub accepts a pending
\* connection when it next runs with a free slot: the listener's read event
\* stays ready until the connection is accepted.
SpecPool == InitPool /\ [][Next]_vars /\ \A s \in Sessions : WF_vars(Accept(s))

----------------------------------------------------------------------------
(* The codec on its own: a value is composed, written by write_response
   and read back by handle_request; a peer may also put a Map of its own
   making in a frame *)

MaxDepth == 2
MaxPairs == 2

\* scalar values; text is held as str, a payload that is not UTF-8 as bytes
Atoms ==
    { Str(<<>>), Str(<<"a">>), Str(<<"a", CR, LF, "b">>), Bytes(<<XFF>>),
      Integer(0), Integer(12), Integer(0 - 3), None,
      Error(<<>>), Error(<<"x">>), Error(<<"a", LF, "b">>), Error(<<"a", CR>>),
      List(<<>>), Dict(<<>>) }

PairKeys == {Str(A), Str(B), Integer(1)}
PairValues == {Integer(1), Integer(2)}

RECURSIVE Depth(_)
Depth(v) ==
    LET RECURSIVE Deepest(_)
        Deepest(xs) ==
            IF xs = <<>> THEN 0
            ELSE LET d == Depth(Head(xs))
                     m == Deepest(Tail(xs))
                 IN  IF d > m THEN d ELSE m
    IN  IF v.k = "list" THEN 1 + Deepest(v.p)
        ELSE IF v.k = "dict"
        THEN 1 + Deepest([i \in 1..(2 * Len(v.p)) |-> v.p[(i + 1) \div 2][2 - (i % 2)]])
        ELSE 0

RECURSIVE PyValue(_)
\* v is a value a Python program holds: the keys of a dict are hashable and
\* distinct
PyValue(v) ==
    IF v.k = "list" THEN \A i \in 1..Len(v.p) : PyValue(v.p[i])
    ELSE IF v.k = "dict"
    THEN /\ \A i \in 1..Len(v.p) :
              Hashable(v.p[i][1]) /\ PyValue(v.p[i][1]) /\ PyValue(v.p[i][2])
         /\ \A i, j \in 1..Len(v.p) : v.p[i][1] = v.p[j][1] => i = j
    ELSE TRUE

InitCodec ==
    /\ InitWith({}, {}, 0)
    /\ val \in Atoms
    /\ wire = <<>>
    /\ dec = Block
    /\ stage = "value"

\* the value is put in a list, or in a dict as value or as key
Compose ==
    /\ stage = "value"
    /\ Depth(val) < MaxDepth
    /\ \/ val' = List(<<val>>)
       \/ val' = List(<<Integer(1), val>>)
       \/ val' = Dict(<<<<Str(A), val>>>>)
       \/ Hashable(val) /\ val' = Dict(<<<<val, Integer(1)>>>>)
    /\ UNCHANGED <<server, wire, dec, stage>>

\* a peer adds a pair to the Map it will send
AddPair(k, v) ==
    /\ stage = "value"
    /\ val.k = "dict"
    /\ Len(val.p) < MaxPairs
    /\ val' = Dict(Append(val.p, <<k, v>>))
    /\ UNCHANGED <<server, wire, dec, stage>>

\* write_response(socket_file, val)
EncodeValue ==
    /\ stage = "value"
    /\ PyValue(val)
    /\ _write(val).st = "ok"
    /\ wire' = _write(val).v
    /\ stage' = "written"
    /\ UNCHANGED <<server, val, dec>>

\* a peer sends the frame of its Map: % and the number of pairs, then the
\* key and the value of each pair
PeerFrame ==
    /\ stage = "value"
    /\ val.k = "dict"
    /\ ~PyValue(val)
    /\ wire' = <<"%">> \o NatToBytes(Len(val.p)) \o <<CR, LF>> \o write_pairs(val.p).v
    /\ stage' = "written"
    /\ UNCHANGED <<server, val, dec>>

\* handle_request(socket_file) at the end of what was written
DecodeBack ==
    /\ stage = "written"
    /\ dec' = handle_request(wire, 0, TRUE)
    /\ stage' = "read"
    /\ UNCHANGED <<server, val, wire>>

NextCodec ==
    \/ Compose
    \/ \E k \in PairKeys, v \in PairValues : AddPair(k, v)
    \/ EncodeValue
    \/ PeerFrame
    \/ DecodeBack

SpecCodec == InitCodec /\ [][NextCodec]_vars

----------------------------------------------------------------------------
(* Vocabulary of the properties *)

Tags == {"+", "-", ":", "$", "*", "%"}

Last(q) == q[Len(q)]

\* the words of a request: the elements of an Array, the tokens of a text
Words(d) ==
    IF d.k = "list" THEN d.p
    ELSE IF d.k \in {"str", "bytes"} THEN Tokens(d)
    ELSE <<>>

IsText(v) == v.k = "str" \/ (v.k = "bytes" /\ ValidUtf8(v.p))

\* the request names command c, in any letter case
Names(d, c) == Len(Words(d)) > 0 /\ IsText(Words(d)[1]) /\ upper(Words(d)[1].p) = c

NArgs(d) == Len(Words(d)) - 1

UnknownCommand(d) ==
    /\ Len(Words(d)) > 0
    /\ IsText(Words(d)[1])
    /\ \A c \in {GET, SET, DELETE, FLUSH, MGET, MSET} : ~Names(d, c)

NotSplittable(d) == d.k \in {"int", "err", "dict"} \/ d = None

\* an Array or a text with no word in it
NoCommand(d) == d.k \in {"list", "str", "bytes"} /\ Len(Words(d)) = 0

\* the requests for which get_response raises CommandError
Refused(d) == UnknownCommand(d) \/ NotSplittable(d) \/ NoCommand(d)

WrongArity(d) ==
    \/ (Names(d, GET) \/ Names(d, DELETE)) /\ NArgs(d) # 1
    \/ Names(d, SET) /\ NArgs(d) # 2
    \/ Names(d, FLUSH) /\ NArgs(d) # 0
    \/ Names(d, MSET) /\ NArgs(d) % 2 = 1

\* the handler called for the request session s last decoded, and the
\* result of running it alone, without interruption, on the store it found
RECURSIVE Run(_, _, _)
Run(h, f, store) ==
    LET r == HandlerStep(h, f, store)
    IN  IF r.st = "go" THEN Run(h, r.f, r.kv) ELSE r

Called(s) == data[s] # None /\ get_response(data[s]).st = "call"
CalledHandler(s) == Handler(get_response(data[s]).v.p)
Alone(s) ==
    LET call == get_response(data[s])
    IN  Run(Handler(call.v.p), [NoFrame EXCEPT !.args = call.args], kv0[s])

----------------------------------------------------------------------------
(* C1 *)

\* C1: handlers are atomic with respect to other sessions.  A session that
\* is dispatching or inside a handler has the processor; what is left of its
\* handler, run on the store as it is now, ends as the whole handler run
\* alone on the store it found; the value it returns is that of the handler
\* run alone, and FLUSH returns the number of entries it found and removed.
C1_AtomicHandlers ==
    \A s \in Sessions :
        LET alone == Alone(s)
        IN  /\ pc[s] \in Handlers \cup {"Dispatch"} => running = s
            /\ pc[s] \in Handlers => Run(pc[s], frame[s], kv) = alone
            /\ pc[s] = "EncodeResponse" /\ Called(s) =>
                  /\ alone.st = "ok"
                  /\ resp[s] = alone.v
                  /\ CalledHandler(s) = "flush" =>
                        resp[s] = Integer(Len(kv0[s]))

\* a session is half way through MSET, one pair written, while another
\* session, its handler returned, has not yet written its response
C1_Witness ==
    \E s, t \in Sessions :
        /\ s # t
        /\ pc[s] = "mset" /\ frame[s].count = 1 /\ frame[s].args # <<>>
        /\ pc[t] = "EncodeResponse"

----------------------------------------------------------------------------
(* C2 *)

ErrorFrame(msg) == <<"-">> \o msg \o <<CR, LF>>

\* C2: a request naming an unknown command is answered with the ErrorValue
\* "Command not found: <NAME>", a request that is neither Array nor text, or
\* that holds no word, with an ErrorValue; the store is not touched, the
\* session goes on to AwaitRequest having written exactly that response, and
\* the requests after it are answered.
C2_CommandErrorRecovered ==
    /\ [](\A s \in Sessions :
            Refused(data[s]) /\ ndec[s] > 0 =>
                /\ pc[s] \in {"Dispatch", "EncodeResponse", "AwaitRequest", "Closed"}
                /\ pc[s] = "Dispatch" => Len(out[s]) = ndec[s] - 1
                /\ pc[s] = "EncodeResponse" =>
                      /\ Len(out[s]) = ndec[s] - 1
                      /\ resp[s].k = "err"
                      /\ UnknownCommand(data[s]) =>
                            resp[s] = Error(MsgNotFound \o upper(Words(data[s])[1].p))
                /\ pc[s] \in {"AwaitRequest", "Closed"} =>
                      /\ Len(out[s]) = ndec[s]
                      /\ Last(out[s])[1] = "-"
                      /\ UnknownCommand(data[s]) =>
                            Last(out[s]) =
                              ErrorFrame(MsgNotFound \o upper(Words(data[s])[1].p)))
    /\ [][\A s \in Sessions :
            /\ Refused(data[s])
            /\ running = s
            /\ pc[s] \in {"Dispatch", "EncodeResponse"}
            => /\ kv' = kv
               /\ pc'[s] \in {"Dispatch", "EncodeResponse", "AwaitRequest"}]_vars

\* after "Command not found: FOO" was written, a later request of the same
\* connection was answered too
C2_Witness ==
    \E s \in Sessions :
        /\ Len(out[s]) = 2
        /\ out[s][1] = ErrorFrame(MsgNotFound \o <<"F", "O", "O">>)
        /\ out[s][2][1] # "-"
        /\ pc[s] = "AwaitRequest"

----------------------------------------------------------------------------
(* C3 *)

\* the bytes of requests holding a bulk string whose declared length is not
\* the length of its payload: SET a 1 with the value 12 declared one byte
\* long (the last byte is left unread), GET a with the key declared 3 bytes
\* long and FLUSH declared 9 bytes long, each followed by the end of the
\* stream
Misdeclared ==
    { SubSeq(ShortBulk, 1, Len(ShortBulk) - 1), LongBulk, LongBulkTop }

\* C3 (as claimed): a request holding a bulk string whose declared length is
\* not the length of its payload is never answered, and no command of it is
\* applied to the store.
C3_MisdeclaredLengthEndsSession ==
    \A s \in Sessions :
        raw[s] \in Misdeclared =>
            /\ Len(out[s]) = ndec[s] - 1
            /\ pc[s] \in Handlers \cup {"EncodeResponse"} => kv = kv0[s]

----------------------------------------------------------------------------
(* C4 *)

\* the bytes begin a frame that is malformed: a tag byte that is no tag, a
\* non-numeric line after : $ * %, or such a frame as an element
MalformedHead(buf) ==
    /\ buf # <<>>
    /\ \/ buf[1] \notin Tags
       \/ buf \in NonNumeric
       \/ buf = NestedBadTag

\* C4: a malformed frame ends the session by the exception that decoding
\* raised: nothing is written, the store is left alone, no request is
\* counted, and a closed session does nothing more.
C4_MalformedFrameEndsSession ==
    [][\A s \in Sessions :
         /\ /\ pc[s] = "AwaitRequest"
            /\ MalformedHead(inbuf[s])
            /\ pc'[s] # "AwaitRequest"
            => /\ pc'[s] = "Closed"
               /\ how'[s] \in {"CommandError", "ValueError"}
               /\ out' = out /\ kv' = kv /\ ndec' = ndec
         /\ pc[s] = "Closed" =>
               /\ pc'[s] = "Closed"
               /\ out'[s] = out[s] /\ ndec'[s] = ndec[s] /\ inbuf'[s] = inbuf[s]]_vars

\* a session that had answered a request was ended by a malformed frame,
\* which is still unread
C4_Witness ==
    \E s \in Sessions :
        /\ pc[s] = "Closed"
        /\ how[s] \in {"CommandError", "ValueError"}
        /\ MalformedHead(inbuf[s])
        /\ Len(out[s]) = 1 /\ ndec[s] = 1

----------------------------------------------------------------------------
(* C5 *)

\* C5: a request for a known command with the wrong number of arguments is
\* never answered: its session gets no further than the handler and ends by
\* an exception that is no CommandError.
C5_WrongArityEndsSession ==
    \A s \in Sessions :
        WrongArity(data[s]) =>
            /\ pc[s] \in {"Dispatch", "mset", "Closed"}
            /\ Len(out[s]) = ndec[s] - 1
            /\ resp[s] = None
            /\ pc[s] = "Closed" => how[s] \in {"TypeError", "StopIteration"}

\* a session that had answered one request was ended by MSET with three
\* arguments
C5_Witness ==
    \E s \in Sessions :
        /\ pc[s] = "Closed" /\ how[s] = "StopIteration"
        /\ Names(data[s], MSET) /\ NArgs(data[s]) = 3
        /\ ndec[s] = 2 /\ Len(out[s]) = 1

----------------------------------------------------------------------------
(* C6 *)

\* the stream has ended where a tag byte is due: between requests, or where
\* an element of an Array or Map should start
EndWhereTagDue(s) ==
    eof[s] /\ inbuf[s] \in {<<>>, TruncArray, TruncMap}

\* C6: at the end of the stream where a tag byte is due the loop ends
\* normally: no exception, nothing written, nothing dispatched, the store
\* left alone.
C6_EndOfStreamCloses ==
    [][\A s \in Sessions :
         /\ pc[s] = "AwaitRequest"
         /\ EndWhereTagDue(s)
         /\ pc'[s] # "AwaitRequest"
         => /\ pc'[s] = "Closed"
            /\ how'[s] = ""
            /\ out' = out /\ kv' = kv /\ ndec' = ndec /\ data' = data]_vars

\* a session closed without an exception at the end of a stream that stops
\* inside an Array
C6_Witness ==
    \E s \in Sessions :
        pc[s] = "Closed" /\ how[s] = "" /\ eof[s] /\ inbuf[s] = TruncArray
----------------------------------------------------------------------------
(* C7 *)

\* C7 (as claimed): decoding the bytes write_response produced for a value
\* yields that value and consumes exactly those bytes.
C7_RoundTrip ==
    stage = "read" /\ PyValue(val) => dec = Ok(val, Len(wire))

----------------------------------------------------------------------------
(* C8 *)

\* C8 (as claimed): decoding a % frame of n pairs yields a Map holding
\* exactly the n pairs, in the order received, duplicate keys included.
C8_MapKeepsEveryPair ==
    stage = "read" /\ val.k = "dict" =>
        /\ dec.st = "ok"
        /\ dec.v.k = "dict"
        /\ dec.v.p = val.p

----------------------------------------------------------------------------
(* C9, C10 *)

RECURSIVE LastWrite(_, _)
\* what the operations l left under key k: <<v>> when the last of them that
\* concerns k wrote v, <<>> when it removed k or there is none
LastWrite(l, k) ==
    IF l = <<>> THEN <<>>
    ELSE LET e == Last(l)
         IN  IF e.op = "clear" \/ (e.op = "pop" /\ e.key = k) THEN <<>>
             ELSE IF e.op = "setitem" /\ e.key = k THEN <<e.value>>
             ELSE LastWrite(SubSeq(l, 1, Len(l) - 1), k)

\* every key the operations l name
KeysOf(l) == {l[i].key : i \in 1..Len(l)}

\* C9: GET(k) returns the value of the most recent SET or MSET of k that no
\* DELETE(k) or FLUSH followed, null when there is none, and leaves the
\* store as it is.
C9_GetReturnsLastWrite ==
    [][\A s \in Sessions :
         pc[s] = "get" /\ pc'[s] # "get" =>
            /\ pc'[s] = "EncodeResponse"
            /\ resp'[s] = IF LastWrite(log, frame[s].args[1]) = <<>> THEN None
                          ELSE LastWrite(log, frame[s].args[1])[1]
            /\ kv' = kv
            /\ log' = log]_vars

\* GET a answered 2 after SET a 1 and SET a 2; GET a answered null after
\* SET a 1 and DELETE a
C9_Witness ==
    \E s \in Sessions :
        /\ pc[s] = "EncodeResponse"
        /\ data[s] = List(<<Str(GET), Str(A)>>)
        /\ Len(log) = 2
        /\ log[1].op = "setitem" /\ log[1].key = Str(A) /\ log[1].value = Str(ONE)
        /\ \/ log[2].op = "setitem" /\ log[2].key = Str(A) /\ resp[s] = Str(TWO)
           \/ log[2].op = "pop" /\ log[2].key = Str(A) /\ resp[s] = None

\* C10 (as claimed): DELETE(k) returns 1 if k was a key of the store,
\* whatever the value under it, and 0 otherwise; afterwards k is absent and
\* no other key is affected.
C10_DeleteReportsRemoval ==
    [][\A s \in Sessions :
         pc[s] = "delete" /\ pc'[s] # "delete" =>
            /\ pc'[s] = "EncodeResponse"
            /\ resp'[s] = IF LastWrite(log, frame[s].args[1]) # <<>>
                          THEN Integer(1) ELSE Integer(0)
            /\ \A k \in KeysOf(log) :
                  LastWrite(log', k) =
                    IF k = frame[s].args[1] THEN <<>> ELSE LastWrite(log, k)]_vars

----------------------------------------------------------------------------
(* C11 *)

\* the keys the operations l left in the store
Held(l) == {k \in KeysOf(l) : LastWrite(l, k) # <<>>}

\* the store was flushed and nothing was written since
Flushed(l) ==
    \E i \in 1..Len(l) :
        l[i].op = "clear" /\ \A j \in (i + 1)..Len(l) : l[j].op # "setitem"

\* C11: FLUSH returns the number of entries the store held just before the
\* call (0 for an empty store) and leaves the store empty; every GET that
\* follows a FLUSH with no SET or MSET in between returns null.
C11_FlushCountsAndEmpties ==
    [][\A s \in Sessions :
         /\ pc[s] = "flush" /\ pc'[s] # "flush" =>
               /\ pc'[s] = "EncodeResponse"
               /\ resp'[s] = Integer(Cardinality(Held(log)))
               /\ kv' = <<>>
               /\ Held(log') = {}
         /\ pc[s] = "get" /\ pc'[s] # "get" /\ Flushed(log) =>
               /\ pc'[s] = "EncodeResponse"
               /\ resp'[s] = None]_vars

\* MSET a 2 b 1 was answered 2, FLUSH was answered 2, and GET a then finds
\* nothing
C11_Witness ==
    \E s \in Sessions :
        /\ pc[s] = "EncodeResponse"
        /\ data[s] = List(<<Str(GET), Str(A)>>)
        /\ resp[s] = None
        /\ out[s] = << <<":", "2", CR, LF>>, <<":", "2", CR, LF>> >>
        /\ Len(log) = 3 /\ log[3].op = "clear"

----------------------------------------------------------------------------
(* C12 *)

\* the arguments the request session s last decoded supplied to its handler
Supplied(s) == get_response(data[s]).args

\* the value of the last pair of args whose key is k
LastPair(args, k) ==
    LET n == Len(args) \div 2
        j == CHOOSE j \in 1..n :
                 /\ args[2 * j - 1] = k
                 /\ \A i \in (j + 1)..n : args[2 * i - 1] # k
    IN  args[2 * j]

PairKeysOf(args) == {args[2 * i - 1] : i \in 1..(Len(args) \div 2)}

StoreKeys(d) == {d[i][1] : i \in 1..Len(d)}

\* C12: MSET with k1,v1,...,kn,vn never faults, returns n and leaves under
\* every ki the value of the last pair with that key, every other key as it
\* was; MGET(k1,...,km) returns an Array of m elements, the i-th the value
\* last written under ki or null when ki is absent, and leaves the store
\* as it is.
C12_MsetWritesMgetReads ==
    [][\A s \in Sessions :
         /\ pc[s] = "mset" /\ Len(Supplied(s)) % 2 = 0 =>
               pc'[s] \in {"mset", "EncodeResponse"}
         /\ pc[s] = "mset" /\ pc'[s] = "EncodeResponse" =>
               /\ resp'[s] = Integer(Len(Supplied(s)) \div 2)
               /\ StoreKeys(kv') = StoreKeys(kv0[s]) \cup PairKeysOf(Supplied(s))
               /\ \A k \in StoreKeys(kv') :
                     dict_get(kv', k, None) =
                       IF k \in PairKeysOf(Supplied(s))
                       THEN LastPair(Supplied(s), k)
                       ELSE dict_get(kv0[s], k, None)
         /\ pc[s] = "mget" /\ pc'[s] # "mget" =>
               /\ pc'[s] = "EncodeResponse"
               /\ resp'[s].k = "list"
               /\ Len(resp'[s].p) = Len(Supplied(s))
               /\ \A i \in 1..Len(Supplied(s)) :
                     resp'[s].p[i] =
                       IF LastWrite(log, Supplied(s)[i]) = <<>> THEN None
                       ELSE LastWrite(log, Supplied(s)[i])[1]
               /\ kv' = kv /\ kv = kv0[s]]_vars

\* MSET a 1 a 2 was answered 2 and MGET a b is answered [2, null]
C12_Witness ==
    \E s \in Sessions :
        /\ pc[s] = "EncodeResponse"
        /\ data[s] = List(<<Str(MGET), Str(A), Str(B)>>)
        /\ resp[s] = List(<<Str(TWO), None>>)
        /\ out[s] = << <<":", "2", CR, LF>> >>
        /\ Len(log) = 2 /\ log[1].value = Str(ONE) /\ log[2].value = Str(TWO)

----------------------------------------------------------------------------
(* C13 *)

\* the response the request session s last decoded is due: what its handler
\* returns, run on the store it found, or the ErrorValue of the command-error
Answer(s) ==
    IF Called(s) THEN Alone(s).v ELSE Error(get_response(data[s]).v.p)

\* C13: on every connection the responses written are never more than the
\* requests decoded: all of them while the session waits for a request, all
\* but the last while it works on one.  A request is decoded only when
\* every earlier one is answered, and it is the first of the bytes pending;
\* a response is appended as the ndec-th chunk written and answers the
\* ndec-th request.
C13_ResponsesInRequestOrder ==
    /\ [](\A s \in Sessions :
            /\ Len(out[s]) <= ndec[s]
            /\ pc[s] = "AwaitRequest" => Len(out[s]) = ndec[s]
            /\ pc[s] \in Handlers \cup {"Dispatch", "EncodeResponse"} =>
                  Len(out[s]) = ndec[s] - 1)
    /\ [][\A s \in Sessions :
            /\ ndec'[s] # ndec[s] =>
                  /\ ndec'[s] = ndec[s] + 1
                  /\ Len(out[s]) = ndec[s]
                  /\ inbuf[s] = raw'[s] \o inbuf'[s]
                  /\ handle_request(raw'[s], 0, TRUE) = Ok(data'[s], Len(raw'[s]))
            /\ out'[s] # out[s] =>
                  /\ ndec'[s] = ndec[s]
                  /\ Len(out'[s]) = ndec[s]
                  /\ out'[s] = Append(out[s], _write(Answer(s)).v)
            /\ pc[s] = "EncodeResponse" /\ pc'[s] # "EncodeResponse" =>
                  out'[s] # out[s]]_vars

\* two requests arrived in one chunk, SET b 1 and GET b, and were answered
\* in that order
C13_Witness ==
    \E s \in Sessions :
        /\ nsent = 1 /\ ndec[s] = 2
        /\ out[s] = << <<":", "1", CR, LF>>, <<"$", "1", CR, LF, "1", CR, LF>> >>
        /\ pc[s] = "AwaitRequest"

----------------------------------------------------------------------------
(* C14, C15 *)

\* the sessions accepted and not yet closed
Open == {s \in Sessions : pc[s] \notin {"Idle", "Closed"}}

\* the connection of s is the first of those waiting to be accepted
Waiting(s) ==
    s \in env.clients /\ pc[s] = "Idle" /\ \A t \in 1..(s - 1) : pc[t] # "Idle"

\* C14: the sessions accepted and not yet closed are never more than the
\* pool has slots.
C14_PoolBoundsSessions == Cardinality(Open) <= env.pool

\* every slot is taken and a connection waits
C14_Witness ==
    /\ Cardinality(Open) = env.pool
    /\ \E s \in Sessions : Waiting(s)
    /\ \E s \in Open : ndec[s] > 0

\* C15: a connection that finds every slot taken is not turned away: it
\* stays waiting while the pool is full, its session never closes unserved,
\* and once a slot is free the first connection waiting becomes a session.
C15_WaitingIsAccepted ==
    /\ [][\A s \in Sessions :
            pc[s] = "Idle" =>
                /\ pc'[s] \in {"Idle", "AwaitRequest"}
                /\ Cardinality(Open) >= env.pool => pc'[s] = "Idle"]_vars
    /\ \A s \in Sessions :
            (Waiting(s) /\ Cardinality(Open) < env.pool) ~> (pc[s] # "Idle")

\* a session that was ended by an exception, of decoding or of a handler,
\* has released its slot to a connection that had to wait
C15_Witness ==
    \E s, t \in Sessions :
        /\ pc[s] = "Closed" /\ how[s] \in {"CommandError", "StopIteration"}
        /\ env.pool = 1
        /\ s < t /\ pc[t] = "Dispatch"

----------------------------------------------------------------------------
(* C16 *)

\* the count declared in the header line of the frame b
Declared(b) == ParseInt(rstrip(readline(b, 1, TRUE).v, {CR, LF})).n

\* C16 (as claimed): an Array or Map that decoding returned has as many
\* elements, or pairs, as the header line of its frame declares, whatever
\* the count; a frame that stops before the elements declared is never
\* decoded.
C16_CountMatchesElements ==
    \A s \in Sessions :
        /\ ndec[s] > 0 /\ data[s].k \in {"list", "dict"} =>
              Len(data[s].p) = Declared(raw[s])
        /\ raw[s] \notin {TruncArray, TruncMap}

----------------------------------------------------------------------------
(* C17, C18 *)

\* what serving request d on the store alone comes to: the value returned
\* or the ErrorValue of a command-error ("ok"), or the exception that ends
\* the session, and the store left
Outcome(d, store) ==
    LET c == get_response(d)
    IN  IF c.st = "call"
        THEN Run(Handler(c.v.p), [NoFrame EXCEPT !.args = c.args], store)
        ELSE IF c.st = "CommandError" THEN Ret(Error(c.v.p), store)
        ELSE Fault(c.st, store)

\* the store session s found when it began to serve its request
Found(s) == IF pc[s] = "Dispatch" THEN kv ELSE kv0[s]

\* session s ends serving its request in this step as o says
EndsAs(s, o) ==
    pc[s] \in Handlers \cup {"Dispatch"} /\ pc'[s] \in {"EncodeResponse", "Closed"}
    => /\ kv' = o.kv
       /\ pc'[s] = "EncodeResponse" => o.st = "ok" /\ resp'[s] = o.v
       /\ pc'[s] = "Closed" => o.st = how'[s] /\ o.st # "ok"

\* where the first word of the text t ends
NameEnd(t) ==
    Len(t) - Len(lstrip(t, UnicodeWhitespace)) + Len(split(t, UnicodeWhitespace)[1])

\* the request d with its command name in upper case
UpperName(d) ==
    IF d.k = "list"
    THEN [d EXCEPT !.p[1] = Str(upper(d.p[1].p))]
    ELSE [d EXCEPT !.p = [i \in 1..Len(d.p) |->
                            IF i <= NameEnd(d.p) THEN Upper(d.p[i]) ELSE d.p[i]]]

\* the command name of d is text with a letter in lower case
NameHasLowerCase(d) ==
    /\ d.k \in {"list", "str"}
    /\ Len(Words(d)) > 0
    /\ Words(d)[1].k = "str"
    /\ upper(Words(d)[1].p) # Words(d)[1].p

\* C17: a request whose command name has letters in lower case is served
\* as the request with the name in upper case: same response or same
\* fault, same store; the arguments reach the handler as they were sent.
C17_CommandNameAnyCase ==
    [][\A s \in Sessions :
         NameHasLowerCase(data[s]) =>
            /\ EndsAs(s, Outcome(UpperName(data[s]), Found(s)))
            /\ pc[s] = "Dispatch" /\ pc'[s] \in Handlers =>
                  frame'[s].args = Tail(Words(data[s]))]_vars

\* sEt A 2 was answered 1 and left the key A, not a; Get A is answered 2
C17_Witness ==
    \E s \in Sessions :
        /\ pc[s] = "EncodeResponse"
        /\ data[s] = List(<<Str(<<"G", "e", "t">>), Str(<<"A">>)>>)
        /\ resp[s] = Str(TWO)
        /\ kv = <<<<Str(<<"A">>), Str(TWO)>>>>
        /\ out[s] = << <<":", "1", CR, LF>> >>

\* the Array request whose elements are the words of the text d, as a
\* client frames it and handle_request decodes it
ArrayForm(d) == handle_request(Req(split(d.p, UnicodeWhitespace)), 0, TRUE).v

\* C18: a request that is text is served as the Array of its words: same
\* response or same fault, same store; a text without a word is answered
\* with an ErrorValue.
C18_TextServedAsArray ==
    [][\A s \in Sessions :
         data[s].k = "str" =>
            /\ EndsAs(s, Outcome(ArrayForm(data[s]), Found(s)))
            /\ pc[s] = "Dispatch" /\ split(data[s].p, UnicodeWhitespace) = <<>> =>
                  pc'[s] = "EncodeResponse" /\ resp'[s].k = "err"]_vars

\* the line "SET a 2" was answered 1 and wrote 2 under a; the line of get
\* and a, set apart by a tab and other whitespace, is answered 2
C18_Witness ==
    \E s \in Sessions :
        /\ pc[s] = "EncodeResponse"
        /\ data[s] = Str(<<" ", "g", "e", "t", "\t", "x0B", "a", "x1C">>)
        /\ resp[s] = Str(TWO)
        /\ kv = <<<<Str(A), Str(TWO)>>>>
        /\ out[s] = << <<":", "1", CR, LF>> >>

----------------------------------------------------------------------------
(* C19 *)

RECURSIVE Encodable(_)
\* v is of the kinds the encoder accepts, and so are its parts
Encodable(v) ==
    \/ v.k \in {"str", "bytes", "int", "err", "none"}
    \/ v.k = "list" /\ \A i \in 1..Len(v.p) : Encodable(v.p[i])
    \/ v.k = "dict" /\ \A i \in 1..Len(v.p) :
                          Encodable(v.p[i][1]) /\ Encodable(v.p[i][2])

\* C19: every key and value in the store and every response to write is of
\* the kinds the encoder accepts, so that _write does not raise, and the
\* step that writes a response never ends the session.
C19_ResponsesEncodable ==
    /\ [](/\ \A i \in 1..Len(kv) : Encodable(kv[i][1]) /\ Encodable(kv[i][2])
          /\ \A s \in Sessions :
                pc[s] = "EncodeResponse" =>
                    Encodable(resp[s]) /\ _write(resp[s]).st = "ok")
    /\ [][\A s \in Sessions :
            pc[s] = "EncodeResponse" =>
                pc'[s] \in {"EncodeResponse", "AwaitRequest"}]_vars

\* a Map holding an ErrorValue was stored under a, returned by GET a and
\* written
C19_Witness ==
    \E s \in Sessions :
        /\ pc[s] = "AwaitRequest" /\ ndec[s] = 2
        /\ kv = <<<<Str(A), Dict(<<<<Integer(1), Error(<<"x">>)>>>>)>>>>
        /\ Last(out[s]) = <<"%", "1", CR, LF, ":", "1", CR, LF, "-", "x", CR, LF>>

----------------------------------------------------------------------------
(* C20 *)

\* C20: when MSET is about to fail for want of a last value, every pair
\* before it is in the store; the session it ends has written no response
\* to it, its pairs are among the writes done, one after the other, and the
\* store holds under every key what was last written there, whichever
\* session wrote it and however that session ended.
C20_PartialMsetStays ==
    /\ \A s \in Sessions :
          /\ pc[s] = "mset" /\ Len(frame[s].args) = 1 =>
                \A k \in PairKeysOf(Supplied(s)) :
                    HasKey(kv, k) /\ dict_get(kv, k, None) = LastPair(Supplied(s), k)
          /\ pc[s] = "Closed" /\ how[s] = "StopIteration" =>
                /\ Len(Supplied(s)) % 2 = 1
                /\ Len(out[s]) = ndec[s] - 1
                /\ \E i \in 0..(Len(log) - Len(Supplied(s)) \div 2) :
                      \A j \in 1..(Len(Supplied(s)) \div 2) :
                          log[i + j] = [op |-> "setitem",
                                        key |-> Supplied(s)[2 * j - 1],
                                        value |-> Supplied(s)[2 * j]]
    /\ \A k \in KeysOf(log) \ {None} :
          /\ HasKey(kv, k) <=> LastWrite(log, k) # <<>>
          /\ HasKey(kv, k) => dict_get(kv, k, None) = LastWrite(log, k)[1]

\* MSET b 2 a ended its session with b written; MGET a b of another session
\* is answered [null, 2]
C20_Witness ==
    \E s, t \in Sessions :
        /\ pc[s] = "Closed" /\ how[s] = "StopIteration" /\ out[s] = <<>>
        /\ t # s /\ pc[t] = "EncodeResponse"
        /\ data[t] = List(<<Str(MGET), Str(A), Str(B)>>)
        /\ resp[t] = List(<<None, Str(TWO)>>)
        /\ log = <<[op |-> "setitem", key |-> Str(B), value |-> Str(TWO)]>>

====
